---- MODULE Spec2Model ----
(***************************************************************************)
(* Model of calculator.Calculator: six arithmetic methods over Python      *)
(* numbers.  A Python number is an int (exact, unbounded) or a float       *)
(* (binary floating point, rounded).  The float format is IEEE 754 binary  *)
(* with the precision and the exponent range scaled down from binary64     *)
(* (p = 53, emax = 1023, emin = -1022) so that every value can be          *)
(* enumerated; rounding, subnormals, overflow to infinity and underflow    *)
(* to zero are those of the standard.                                      *)
(***************************************************************************)
EXTENDS Integers, FiniteSets, Sequences, TLC

\* ---------------------------------------------------------------------
\* The scaled float format.
\* ---------------------------------------------------------------------
MantBits == 4                    \* precision p in bits        (binary64: 53)
EmaxHalf == 1                    \* emax = 2*EmaxHalf + 1, odd (binary64: 1023)
MaxExp   == 3                    \* largest integer |exponent| passed to power

Emax     == 2 * EmaxHalf + 1
EminNeg  == Emax - 1             \* emin = 1 - emax            (binary64: -1022)
\* A finite float is k quanta, one quantum being 2^-FracBits (the smallest
\* subnormal); k is a signed integer.
FracBits == MantBits - 1 + EminNeg
Quantum  == 2 ^ FracBits
EShift   == Emax + EminNeg       \* number of binades above the first
MantLim  == 2 ^ MantBits
MaxK     == (MantLim - 1) * (2 ^ EShift)       \* sys.float_info.max, in quanta
\* Round-to-nearest-even sends everything from this value on to infinity.
OvfK     == MaxK + 2 ^ (EShift - 1)
MaxReal  == MaxK \div Quantum

Abs(n) == IF n < 0 THEN -n ELSE n
Sgn(n) == IF n < 0 THEN -1 ELSE IF n > 0 THEN 1 ELSE 0

\* ---------------------------------------------------------------------
\* Python values and call outcomes.
\* ---------------------------------------------------------------------
PyInt(n)   == [t |-> "int",     c |-> "fin", k |-> n]
PyFloat(k) == [t |-> "float",   c |-> "fin", k |-> k]
PyInf(s)   == [t |-> "float",   c |-> "inf", k |-> s]
PyNaN      == [t |-> "float",   c |-> "nan", k |-> 0]
\* A complex result is recorded by its modulus, in quanta.
PyComplex(k) == [t |-> "complex", c |-> "fin", k |-> k]
NoValue    == [t |-> "none",    c |-> "none", k |-> 0]

Return(v)     == [exc |-> "none", msg |-> "", val |-> v]
Raise(e, m)   == [exc |-> e, msg |-> m, val |-> NoValue]

\* The shift e of the binade a magnitude n >= 0 (in quanta) falls in:
\* e = 0 below 2^p (subnormals and the first normal binade), otherwise
\* 2^(p-1+e) <= n < 2^(p+e).
RECURSIVE BinadeOf(_)
BinadeOf(n) == IF n < MantLim THEN 0 ELSE 1 + BinadeOf(n \div 2)

\* The finite floats: |k| has at most p significant bits and is at most MaxK.
IsRepr(k) == /\ Abs(k) <= MaxK
             /\ Abs(k) % (2 ^ BinadeOf(Abs(k))) = 0
FloatKs   == {k \in -MaxK..MaxK : IsRepr(k)}

\* Round the rational n/d quanta (n >= 0, d > 0) to the nearest float,
\* ties to the even mantissa; the result is a magnitude in quanta, or -1
\* for overflow to infinity.
RoundMag(n, d) ==
    LET fl == n \div d
    IN  IF fl >= OvfK THEN -1
        ELSE LET u   == 2 ^ BinadeOf(fl)
                 m0  == fl \div u
                 rem == (fl % u) * d + (n % d)      \* (n/d - m0*u) * d
                 m   == IF 2 * rem > d * u THEN m0 + 1
                        ELSE IF 2 * rem < d * u THEN m0
                        ELSE m0 + (m0 % 2)
             IN  m * u

\* The float nearest to s * n/d quanta (s = +1 or -1).
RoundFloat(s, n, d) ==
    LET r == RoundMag(n, d)
    IN  IF r = -1 THEN PyInf(s) ELSE PyFloat(s * r)

\* ---------------------------------------------------------------------
\* Python's arithmetic on ints and floats.
\* ---------------------------------------------------------------------
IsNaN(x) == x.c = "nan"
IsInf(x) == x.c = "inf"
IsFin(x) == x.c = "fin"
Neg(x)   == [x EXCEPT !.k = -x.k]

\* Python's x == y and x < y on ints and floats: ints and finite floats
\* compare by exact value, NaN compares unequal to everything.
Scaled(x) == IF x.t = "int" THEN x.k * Quantum ELSE x.k
PyEq(x, y) ==
    IF IsNaN(x) \/ IsNaN(y) THEN FALSE
    ELSE IF IsInf(x) \/ IsInf(y) THEN IsInf(x) /\ IsInf(y) /\ x.k = y.k
    ELSE Scaled(x) = Scaled(y)
PyLt(x, y) ==
    IF IsNaN(x) \/ IsNaN(y) THEN FALSE
    ELSE IF IsInf(x) THEN x.k < 0 /\ ~(IsInf(y) /\ y.k < 0)
    ELSE IF IsInf(y) THEN y.k > 0
    ELSE Scaled(x) < Scaled(y)

\* float(n) for an int operand of a mixed operation: the nearest float, or
\* OverflowError when n rounds beyond the largest float.
ToFloat(x) ==
    IF x.t = "float" THEN Return(x)
    ELSE LET r == RoundMag(Abs(x.k) * Quantum, 1)
         IN  IF r = -1
             THEN Raise("OverflowError", "int too large to convert to float")
             ELSE Return(PyFloat(Sgn(x.k) * r))

\* IEEE 754 addition, multiplication and division of two floats.
FloatAdd(x, y) ==
    IF IsNaN(x) \/ IsNaN(y) THEN PyNaN
    ELSE IF IsInf(x) THEN (IF IsInf(y) /\ y.k # x.k THEN PyNaN ELSE x)
    ELSE IF IsInf(y) THEN y
    ELSE LET s == x.k + y.k
         IN  RoundFloat(IF s < 0 THEN -1 ELSE 1, Abs(s), 1)

FloatMul(x, y) ==
    IF IsNaN(x) \/ IsNaN(y) THEN PyNaN
    ELSE IF IsInf(x) \/ IsInf(y)
         THEN (IF x.k = 0 \/ y.k = 0 THEN PyNaN ELSE PyInf(Sgn(x.k) * Sgn(y.k)))
    ELSE RoundFloat(IF Sgn(x.k) * Sgn(y.k) < 0 THEN -1 ELSE 1,
                    Abs(x.k) * Abs(y.k), Quantum)

\* y is not zero.
FloatDiv(x, y) ==
    IF IsNaN(x) \/ IsNaN(y) THEN PyNaN
    ELSE IF IsInf(x) THEN (IF IsInf(y) THEN PyNaN ELSE PyInf(x.k * Sgn(y.k)))
    ELSE IF IsInf(y) THEN PyFloat(0)
    ELSE RoundFloat(IF Sgn(x.k) * Sgn(y.k) < 0 THEN -1 ELSE 1,
                    Abs(x.k) * Quantum, Abs(y.k))

\* A float operation on operands of which at least one is a float: an int
\* operand is converted first, and the conversion's error propagates.
Coerced(x, y, Op(_, _)) ==
    LET fx == ToFloat(x)
        fy == ToFloat(y)
    IN  IF fx.exc # "none" THEN fx
        ELSE IF fy.exc # "none" THEN fy
        ELSE Return(Op(fx.val, fy.val))

\* a + b
PyAdd(a, b) ==
    IF a.t = "int" /\ b.t = "int" THEN Return(PyInt(a.k + b.k))
    ELSE Coerced(a, b, FloatAdd)

\* a - b
FloatSub(x, y) == FloatAdd(x, Neg(y))
PySub(a, b) ==
    IF a.t = "int" /\ b.t = "int" THEN Return(PyInt(a.k - b.k))
    ELSE Coerced(a, b, FloatSub)

\* a * b
PyMul(a, b) ==
    IF a.t = "int" /\ b.t = "int" THEN Return(PyInt(a.k * b.k))
    ELSE Coerced(a, b, FloatMul)

\* a / b: int / int is the correctly rounded exact quotient.
PyTrueDiv(a, b) ==
    IF PyEq(b, PyInt(0))
    THEN Raise("ZeroDivisionError", "division by zero")
    ELSE IF a.t = "int" /\ b.t = "int"
    THEN LET r == RoundMag(Abs(a.k) * Quantum, Abs(b.k))
         IN  IF r = -1
             THEN Raise("OverflowError",
                        "integer division result too large for a float")
             ELSE Return(PyFloat(Sgn(a.k) * Sgn(b.k) * r))
    ELSE Coerced(a, b, FloatDiv)

\* ---------------------------------------------------------------------
\* base ** exponent.
\* ---------------------------------------------------------------------
RECURSIVE IPow(_, _)
IPow(n, j) == IF j = 0 THEN 1 ELSE n * IPow(n, j - 1)

\* The largest g in lo..hi-1 with g * g <= n, given lo * lo <= n < hi * hi.
RECURSIVE ISqrtIn(_, _, _)
ISqrtIn(n, lo, hi) ==
    IF hi - lo <= 1 THEN lo
    ELSE LET mid == (lo + hi) \div 2
         IN  IF mid * mid <= n THEN ISqrtIn(n, mid, hi) ELSE ISqrtIn(n, lo, mid)

\* The odd part of n > 0 and the number of factors 2 taken out of it.
RECURSIVE OddPart(_)
OddPart(n) == IF n % 2 = 1 THEN n ELSE OddPart(n \div 2)
RECURSIVE TwoAdic(_)
TwoAdic(n) == IF n % 2 = 1 THEN 0 ELSE 1 + TwoAdic(n \div 2)

\* (n/d) * base^k < 1, for 0 < n, d < 2^16, base 2 or 4 and any integer k,
\* without forming a number beyond 32 bits.
ScaledBelowOne(n, d, base, k) ==
    IF k >= 16 THEN FALSE
    ELSE IF k <= -16 THEN TRUE
    ELSE IF k >= 0 THEN n <= (d - 1) \div (base ^ k)
    ELSE n \div (base ^ (-k)) < d

\* The integer nearest to n/d, ties to even.
NearestEven(n, d) ==
    LET q == n \div d
        r == n % d
    IN  IF 2 * r > d THEN q + 1
        ELSE IF 2 * r < d THEN q
        ELSE q + (q % 2)

\* The integer nearest to the square root of n/d, ties to even.
NearestEvenSqrt(n, d) ==
    LET g  == ISqrtIn(n \div d, 0, 2 * MantLim)
        c  == (2 * g + 1) * (2 * g + 1)
        q4 == (4 * n) \div d
        r4 == (4 * n) % d
    IN  IF c < q4 \/ (c = q4 /\ r4 > 0) THEN g + 1
        ELSE IF c > q4 THEN g
        ELSE g + (g % 2)

\* The float nearest to y quanta, ties to even, where y = (n/d) * 2^t when
\* root = 1 and y = sqrt(n/d) * 2^t when root = 2 (0 < n, d < 2^16): the
\* magnitude in quanta, -1 for overflow.  The binade is found first, and the
\* mantissa is rounded at its own scale.
RoundScaled(root, n, d, t) ==
    LET base   == IF root = 1 THEN 2 ELSE 4
        Below(e) == ScaledBelowOne(n, d, base, t - MantBits - e)   \* y < 2^(p+e)
    IN  IF ~Below(EShift) THEN -1
        ELSE LET e  == CHOOSE f \in 0..EShift :
                           Below(f) /\ \A h \in 0..(f - 1) : ~Below(h)
                 k  == t - e
                 m  == IF ScaledBelowOne(n, d, base, k + 1) THEN 0  \* y/2^e < 1/2
                       ELSE LET nn == IF k >= 0 THEN n * (base ^ k) ELSE n
                                dd == IF k >= 0 THEN d ELSE d * (base ^ (-k))
                            IN  IF root = 1 THEN NearestEven(nn, dd)
                                ELSE NearestEvenSqrt(nn, dd)
             IN  IF e = EShift /\ m = MantLim THEN -1 ELSE m * (2 ^ e)

\* An exponent the model computes: a float whose double is an integer.
TwiceExp(y)    == (2 * y.k) \div Quantum
IsHalfInt(y)   == (2 * y.k) % Quantum = 0
IsIntegral(y)  == y.k % Quantum = 0

\* |x| ** y for finite floats x # 0 and y # 0 with 2y an integer, as libm's
\* pow rounds it: the magnitude in quanta, -1 for overflow.  With
\* |x| = m * 2^e quanta (m odd) the exact power is m^y * 2^(y * (e - FracBits)).
PowMag(x, y) ==
    LET m  == OddPart(Abs(x.k))
        e  == TwoAdic(Abs(x.k)) - FracBits
        j2 == TwiceExp(y)
        j  == Abs(j2) \div 2
    IN  IF j2 % 2 = 0
        THEN (IF j2 > 0 THEN RoundScaled(1, IPow(m, j), 1, j * e + FracBits)
                        ELSE RoundScaled(1, 1, IPow(m, j), FracBits - j * e))
        ELSE LET mm == IPow(m, Abs(j2))
                 t2 == j2 * e + 2 * FracBits        \* y^2 = m^j2 * 2^t2 quanta^2
                 f  == IF t2 % 2 = 0 THEN 1 ELSE 2
                 t  == (t2 - (t2 % 2)) \div 2
             IN  IF j2 > 0 THEN RoundScaled(2, f * mm, 1, t)
                           ELSE RoundScaled(2, f, mm, t)

\* float.__pow__ on two finite floats.
FloatPow(x, y) ==
    IF y.k = 0 THEN Return(PyFloat(Quantum))
    ELSE IF x.k = 0
    THEN (IF y.k < 0
          THEN Raise("ZeroDivisionError",
                     "0.0 cannot be raised to a negative power")
          ELSE Return(PyFloat(0)))
    ELSE IF x.k < 0 /\ ~IsIntegral(y)
    THEN (IF PowMag(x, y) = -1
          THEN Raise("OverflowError", "complex exponentiation")
          ELSE Return(PyComplex(PowMag(x, y))))
    ELSE LET r == PowMag(x, y)
             s == IF x.k < 0 /\ (y.k \div Quantum) % 2 = 1 THEN -1 ELSE 1
         IN  IF r = -1
             THEN Raise("OverflowError", "(34, 'Numerical result out of range')")
             ELSE Return(PyFloat(s * r))

\* base ** exponent: exact for an int raised to a non-negative int,
\* otherwise both operands are converted to float.
PyPow(base, exponent) ==
    IF base.t = "int" /\ exponent.t = "int" /\ exponent.k >= 0
    THEN Return(PyInt(IPow(base.k, exponent.k)))
    ELSE LET fx == ToFloat(base)
             fy == ToFloat(exponent)
         IN  IF fx.exc # "none" THEN fx
             ELSE IF fy.exc # "none" THEN fy
             ELSE FloatPow(fx.val, fy.val)

\* ---------------------------------------------------------------------
\* The methods of Calculator.
\* ---------------------------------------------------------------------
\* Bodies with the wrong operator.
add_with_minus(a, b)          == PySub(a, b)
subtract_with_plus(a, b)      == PyAdd(a, b)
multiply_with_plus(a, b)      == PyAdd(a, b)
power_with_times(base, exponent) == PyMul(base, exponent)

add(a, b)      == PyAdd(a, b)
subtract(a, b) == PySub(a, b)
multiply(a, b) == PyMul(a, b)
\* divide without its guard: a zero divisor reaches the / operator.
divide_unguarded(a, b) == PyTrueDiv(a, b)
\* square_root without its guard: a negative number reaches the ** operator.
square_root_unguarded(number) == PyPow(number, PyFloat(Quantum \div 2))
\* square_root with the guard number <= 0 in place of number < 0.
square_root_strict(number) ==
    IF ~PyLt(PyInt(0), number)
    THEN Raise("ValueError", "Cannot calculate square root of negative number")
    ELSE PyPow(number, PyFloat(Quantum \div 2))

divide(a, b) ==
    IF PyEq(b, PyInt(0))
    THEN Raise("ValueError", "Cannot divide by zero")
    ELSE PyTrueDiv(a, b)
power(base, exponent) == PyPow(base, exponent)
square_root(number) ==
    IF PyLt(number, PyInt(0))
    THEN Raise("ValueError", "Cannot calculate square root of negative number")
    ELSE PyPow(number, PyFloat(Quantum \div 2))

\* ---------------------------------------------------------------------
\* The arguments callers pass.
\* ---------------------------------------------------------------------
\* The numbers of the floating-point data model: the finite floats, and the
\* ints that a float equals (an int literal such as 5 stands for 5.0).
Floats  == {PyFloat(k) : k \in FloatKs}
Ints    == {PyInt(n) : n \in {m \in -MaxReal..MaxReal : IsRepr(m * Quantum)}}
Numbers == Ints \cup Floats
\* Exponents: the integers up to MaxExp in magnitude, as ints and as floats,
\* and the odd multiples of one half up to 3/2.
Exponents ==
    {PyInt(j) : j \in -MaxExp..MaxExp}
    \cup {y \in Floats : IsIntegral(y) /\ Abs(y.k) <= MaxExp * Quantum}
    \cup {y \in Floats : IsHalfInt(y) /\ Abs(TwiceExp(y)) <= 3}

\* ---------------------------------------------------------------------
\* State.
\* ---------------------------------------------------------------------
VARIABLES
    a, b,       \* the arguments of the call under study
    op,         \* the method called with them ("" before the call)
    pc,         \* "start", "called" (out is set), "chained" (out2 is set)
    out,        \* the outcome of op(a, b)
    out2,       \* the outcome of the follow-up call made on out's value
    insts,      \* the attributes (__dict__) of each Calculator instance
    used,       \* the instances a method has been called on
    first,      \* the first call made on the instances, with its outcome
    last,       \* the latest call made on the instances, with its outcome
    cpc,        \* per concurrent caller: "idle", "entered", "returned"
    frame,      \* per concurrent caller: the call's frame (method, arguments),
                \* and whether another caller's call overlapped it
    res         \* per concurrent caller: the outcome delivered to it

vars == <<a, b, op, pc, out, out2, insts, used, first, last, cpc, frame,
          res>>

NoOutcome == [exc |-> "pending", msg |-> "", val |-> NoValue]
NoCall    == [inst |-> 0, fresh |-> FALSE, op |-> "", a |-> NoValue,
              b |-> NoValue, out |-> NoOutcome]
NoFrame   == [op |-> "", a |-> NoValue, b |-> NoValue, overlapped |-> FALSE]

NInstances == 2
NCallers   == 2
Instances  == 1..NInstances
Callers    == 1..NCallers
\* Calculator defines no __init__ and no class attribute besides its
\* methods: a new instance has no attributes.
NewCalculator == {}

seqVars  == <<insts, used, first, last>>
concVars == <<cpc, frame, res>>
funVars  == <<a, b, op, pc, out, out2>>

\* ---------------------------------------------------------------------
\* Spec: one call of one method on drawn arguments, and the two follow-up
\* calls of the round trips.
\* ---------------------------------------------------------------------
Init ==
    /\ a \in Numbers
    /\ b \in Numbers
    /\ op = ""
    /\ pc = "start"
    /\ out = NoOutcome
    /\ out2 = NoOutcome
    /\ insts = [i \in Instances |-> NewCalculator]
    /\ used = {}
    /\ first = NoCall
    /\ last = NoCall
    /\ cpc = [c \in Callers |-> "idle"]
    /\ frame = [c \in Callers |-> NoFrame]
    /\ res = [c \in Callers |-> NoOutcome]

Called(name, outcome) ==
    /\ pc = "start"
    /\ op' = name
    /\ out' = outcome
    /\ pc' = "called"
    /\ UNCHANGED <<a, b, out2, seqVars, concVars>>

Add        == Called("add", add(a, b))
Subtract   == Called("subtract", subtract(a, b))
Multiply   == Called("multiply", multiply(a, b))
Divide     == Called("divide", divide(a, b))
Power      == b \in Exponents /\ Called("power", power(a, b))
SquareRoot == Called("square_root", square_root(a))

Chained(name, outcome) ==
    /\ pc = "called"
    /\ op = name
    /\ out.exc = "none"
    /\ out2' = outcome
    /\ pc' = "chained"
    /\ UNCHANGED <<a, b, op, out, seqVars, concVars>>

\* add(b, a), after add(a, b)
AddSwapped ==
    /\ pc = "called"
    /\ op = "add"
    /\ out2' = add(b, a)
    /\ pc' = "chained"
    /\ UNCHANGED <<a, b, op, out, seqVars, concVars>>

\* divide(multiply(a, b), b)
DivideProduct == Chained("multiply", divide(out.val, b))
\* power(square_root(a), 2)
PowerRoot     == Chained("square_root", power(out.val, PyInt(2)))

Next ==
    \/ Add
    \/ Subtract
    \/ Multiply
    \/ Divide
    \/ Power
    \/ SquareRoot
    \/ AddSwapped
    \/ DivideProduct
    \/ PowerRoot

Spec == Init /\ [][Next]_vars

\* ---------------------------------------------------------------------
\* Calls on instances.
\* ---------------------------------------------------------------------
Methods == {"add", "subtract", "multiply", "divide", "power", "square_root"}
\* The body of the method called name, on arguments x and y (square_root
\* takes x only).
Method(name, x, y) ==
    CASE name = "add"         -> add(x, y)
      [] name = "subtract"    -> subtract(x, y)
      [] name = "multiply"    -> multiply(x, y)
      [] name = "divide"      -> divide(x, y)
      [] name = "power"       -> power(x, y)
      [] name = "square_root" -> square_root(x)

\* A calculator that remembers a failure in an attribute and then refuses
\* every call.
InvokeSticky(self, name, x, y) ==
    LET o == Method(name, x, y)
    IN  IF "failed" \in self
        THEN [out |-> Raise("RuntimeError", "calculator in error state"),
              self |-> self]
        ELSE [out |-> o,
              self |-> IF o.exc = "none" THEN self ELSE self \cup {"failed"}]
\* A calculator that keeps the operands of the call in attributes: it
\* computes on the operands stored by the first call made on it.
InvokeShared(self, name, x, y) ==
    LET args == IF self = {} THEN <<x, y>> ELSE CHOOSE t \in self : TRUE
    IN  [out |-> Method(name, args[1], args[2]), self |-> {args}]

\* calc.name(x, y): the method gets the instance as self and its arguments;
\* no method body reads or assigns an attribute of self, a class attribute
\* or a module global, so the outcome is the body's on x and y and the
\* instance is left as it was.
Invoke(self, name, x, y) == [out |-> Method(name, x, y), self |-> self]

\* The arguments of the calls on instances.
CallArgs == {PyInt(0), PyFloat(-7 * (Quantum \div 2))}

InitCalls ==
    /\ a = PyInt(0)
    /\ b = PyInt(0)
    /\ op = ""
    /\ pc = "start"
    /\ out = NoOutcome
    /\ out2 = NoOutcome
    /\ insts = [i \in Instances |-> NewCalculator]
    /\ used = {}
    /\ first = NoCall
    /\ last = NoCall
    /\ cpc = [c \in Callers |-> "idle"]
    /\ frame = [c \in Callers |-> NoFrame]
    /\ res = [c \in Callers |-> NoOutcome]

\* ---------------------------------------------------------------------
\* SpecSeq: any sequence of calls, each on any of the instances.
\* ---------------------------------------------------------------------
Call(i, name, x, y) ==
    LET r    == Invoke(insts[i], name, x, y)
        call == [inst |-> i, fresh |-> i \notin used, op |-> name, a |-> x,
                 b |-> y, out |-> r.out]
    IN  /\ insts' = [insts EXCEPT ![i] = r.self]
        /\ used' = used \cup {i}
        /\ last' = call
        /\ first' = IF first.inst = 0 THEN call ELSE first
        /\ UNCHANGED <<funVars, concVars>>

NextSeq ==
    \E i \in Instances, name \in Methods, x \in CallArgs, y \in CallArgs :
        Call(i, name, x, y)

SpecSeq == InitCalls /\ [][NextSeq]_vars

\* ---------------------------------------------------------------------
\* SpecConc: callers in threads that share one instance. A caller's call
\* binds its arguments in its own frame, runs the body, and returns; the
\* steps of different callers interleave in any order.
\* ---------------------------------------------------------------------
Shared == 1

InFlight(c) == \E d \in Callers \ {c} : cpc[d] = "entered"

Enter(c, name, x, y) ==
    /\ cpc[c] = "idle"
    /\ cpc' = [cpc EXCEPT ![c] = "entered"]
    /\ frame' = [d \in Callers |->
                   IF d = c
                   THEN [op |-> name, a |-> x, b |-> y,
                         overlapped |-> InFlight(c)]
                   ELSE IF cpc[d] = "entered"
                        THEN [frame[d] EXCEPT !.overlapped = TRUE]
                        ELSE frame[d]]
    /\ UNCHANGED <<funVars, seqVars, res>>

Execute(c) ==
    /\ cpc[c] = "entered"
    /\ LET r == Invoke(insts[Shared], frame[c].op, frame[c].a, frame[c].b)
       IN  /\ res' = [res EXCEPT ![c] = r.out]
           /\ insts' = [insts EXCEPT ![Shared] = r.self]
    /\ cpc' = [cpc EXCEPT ![c] = "returned"]
    /\ UNCHANGED <<funVars, used, first, last, frame>>

\* The caller has consumed the result and is ready for its next call.
Leave(c) ==
    /\ cpc[c] = "returned"
    /\ cpc' = [cpc EXCEPT ![c] = "idle"]
    /\ frame' = [frame EXCEPT ![c] = NoFrame]
    /\ res' = [res EXCEPT ![c] = NoOutcome]
    /\ UNCHANGED <<funVars, seqVars>>

NextConc ==
    \/ \E c \in Callers, name \in Methods, x \in CallArgs, y \in CallArgs :
          Enter(c, name, x, y)
    \/ \E c \in Callers : Execute(c)
    \/ \E c \in Callers : Leave(c)

SpecConc == InitCalls /\ [][NextConc]_vars

\* ---------------------------------------------------------------------
\* Measures the properties are stated with.
\* ---------------------------------------------------------------------
\* One unit in the last place at magnitude k quanta.
Ulp(k) == 2 ^ BinadeOf(Abs(k))
IsReturn(o)   == o.exc = "none" /\ o.val.t # "none"
FiniteFloat(v) == v.t = "float" /\ v.c = "fin"
\* The float v is within n units in the last place of the number x.
WithinUlps(v, x, n) ==
    FiniteFloat(v) /\ Abs(v.k - Scaled(x)) <= n * Ulp(Scaled(x))
Did(name) == pc \in {"called", "chained"} /\ op = name

\* ---------------------------------------------------------------------
\* Properties of Spec.
\* ---------------------------------------------------------------------

\* C1: for every dividend a (positive, negative or zero), divide(a, 0) raises
\* ValueError with the message "Cannot divide by zero" and returns no value.
C1_DivideByZeroRaises ==
    (Did("divide") /\ b.k = 0)
        => /\ out.exc = "ValueError"
           /\ out.msg = "Cannot divide by zero"
           /\ out.val = NoValue
C1_Witness ==
    /\ Did("divide") /\ b.k = 0 /\ a.k < 0 /\ a.t = "float"
    /\ out.exc = "ValueError"

\* C2: for every a < 0, square_root(a) raises ValueError with the message
\* "Cannot calculate square root of negative number" and returns no value.
C2_NegativeRootRaises ==
    (Did("square_root") /\ a.k < 0)
        => /\ out.exc = "ValueError"
           /\ out.msg = "Cannot calculate square root of negative number"
           /\ out.val = NoValue
C2_Witness ==
    /\ Did("square_root") /\ a = PyInt(-1)
    /\ out.exc = "ValueError"

\* C3: add, subtract, multiply and power never fail: whatever the arguments
\* (power with base 0 and a negative exponent, or with a negative base and a
\* fractional exponent, included), the call returns a number and raises no
\* error.
C3_NeverFail ==
    (pc = "called" /\ op \in {"add", "subtract", "multiply", "power"})
        => IsReturn(out)

\* The float v is the float nearest to s * n/d quanta (n >= 0, d > 0, s the
\* sign): infinite from the overflow threshold on, otherwise finite, within
\* half a unit in the last place, and of sign s unless zero.
NearestTo(v, s, n, d) ==
    /\ v.t = "float"
    /\ IF n >= OvfK * d
       THEN v = PyInf(s)
       ELSE /\ v.c = "fin"
            /\ 2 * Abs(Abs(v.k) * d - n) <= Ulp(v.k) * d
            /\ v.k # 0 => Sgn(v.k) = s
SignOf(n) == IF n < 0 THEN -1 ELSE 1
BothInt   == a.t = "int" /\ b.t = "int"

\* C4: for every a and every b # 0, divide(a, b) returns the quotient
\* without error: a float, the one nearest to a / b (so 7 / 2 is 3.5 exactly,
\* and the sign follows the signs of a and b); and for every a >= 0, 0
\* included, square_root(a) returns the root without error: a finite float
\* r >= 0 within half a unit in the last place of the exact root.
C4_TotalOnDomain ==
    /\ (Did("divide") /\ b.k # 0) =>
          /\ IsReturn(out)
          /\ NearestTo(out.val, SignOf(Scaled(a)) * SignOf(Scaled(b)),
                       Abs(Scaled(a)) * Quantum, Abs(Scaled(b)))
    /\ (Did("square_root") /\ a.k >= 0) =>
          /\ IsReturn(out)
          /\ FiniteFloat(out.val)
          /\ out.val.k >= 0
          /\ LET r == 2 * out.val.k
                 u == Ulp(out.val.k)
                 x == 4 * Scaled(a) * Quantum
             IN  (r <= u \/ (r - u) * (r - u) <= x) /\ x <= (r + u) * (r + u)
C4_Witness ==
    /\ Did("divide") /\ a = PyInt(7) /\ b = PyInt(2)
    /\ out = Return(PyFloat(7 * (Quantum \div 2)))

\* The product multiply returned neither overflowed nor underflowed: it is
\* an int, or a finite float that is normal unless a is zero.
ProductNormal ==
    \/ out.val.t = "int"
    \/ /\ FiniteFloat(out.val)
       /\ a.k = 0 \/ Abs(out.val.k) >= 2 ^ (MantBits - 1)

\* divide(multiply(a, b), b) returned a: a float within one unit in the last
\* place of a, and equal to a when a and b are ints.
RoundTripYieldsA ==
    /\ IsReturn(out2)
    /\ WithinUlps(out2.val, a, 1)
    /\ BothInt => PyEq(out2.val, a)

\* C5 as stated: for all a and all b # 0, divide(multiply(a, b), b) does not
\* fail and yields a, exactly when a and b are integers and within
\* floating-point tolerance otherwise.
C5_RoundTrip ==
    (Did("multiply") /\ b.k # 0)
        => /\ IsReturn(out)
           /\ pc = "chained" => RoundTripYieldsA

\* C5 amended: the same for the a and b # 0 whose product multiply(a, b)
\* neither overflows to infinity nor underflows below the smallest normal
\* float.
C5_RoundTripInRange ==
    (Did("multiply") /\ b.k # 0)
        => /\ IsReturn(out)
           /\ (pc = "chained" /\ ProductNormal) => RoundTripYieldsA
C5_Witness ==
    /\ Did("multiply") /\ pc = "chained"
    /\ a = PyFloat(5 * (Quantum \div 4)) /\ b = PyFloat(-3 * (Quantum \div 2))
    /\ out2 = Return(a)

\* x is the square of a multiple of the quantum.
IsSquare(x) ==
    LET n == Scaled(x) * Quantum
        g == ISqrtIn(n, 0, 46340)
    IN  x.k >= 0 /\ g * g = n

\* C6: for all a >= 0, power(square_root(a), 2) yields a: it returns a float
\* within one unit in the last place of a, and equal to a when a is a perfect
\* square.
C6_RootSquared ==
    (Did("square_root") /\ a.k >= 0)
        => /\ IsReturn(out)
           /\ pc = "chained" =>
                 /\ IsReturn(out2)
                 /\ WithinUlps(out2.val, a, 1)
                 /\ IsSquare(a) => PyEq(out2.val, a)
C6_Witness ==
    /\ Did("square_root") /\ pc = "chained"
    /\ a = PyInt(9)
    /\ out = Return(PyFloat(3 * Quantum))
    /\ out2 = Return(PyFloat(9 * Quantum))

\* Two outcomes a caller cannot tell apart: the same error, or values of the
\* same type that compare equal.
SameOutcome(o1, o2) ==
    IF o1.exc = "none" /\ o2.exc = "none"
    THEN o1.val.t = o2.val.t /\ PyEq(o1.val, o2.val)
    ELSE o1.exc = o2.exc /\ o1.msg = o2.msg

\* C9: add(a, b) == add(b, a) for all a and b, and add returns the sum
\* a + b: the exact sum of two ints, otherwise the float nearest to the sum.
C9_AddCommutes ==
    /\ (Did("add") /\ pc = "chained") =>
          IsReturn(out) /\ IsReturn(out2) /\ SameOutcome(out, out2)
    /\ Did("add") =>
          /\ IsReturn(out)
          /\ IF BothInt THEN out.val = PyInt(a.k + b.k)
             ELSE NearestTo(out.val, SignOf(Scaled(a) + Scaled(b)),
                            Abs(Scaled(a) + Scaled(b)), 1)
C9_Witness ==
    /\ Did("add") /\ pc = "chained"
    /\ a = PyInt(-10) /\ b = PyFloat(5 * Quantum)
    /\ out = Return(PyFloat(-5 * Quantum))
    /\ out2 = out

\* C10: subtract(a, a) == 0 for all a, and subtract returns a - b (the exact
\* difference of two ints, otherwise the float nearest to the difference),
\* which is negative when a < b.
C10_SubtractSelf ==
    /\ (Did("subtract") /\ PyEq(a, b)) =>
          IsReturn(out) /\ PyEq(out.val, PyInt(0))
    /\ Did("subtract") =>
          /\ IsReturn(out)
          /\ IF BothInt THEN out.val = PyInt(a.k - b.k)
             ELSE NearestTo(out.val, SignOf(Scaled(a) - Scaled(b)),
                            Abs(Scaled(a) - Scaled(b)), 1)
          /\ Scaled(a) < Scaled(b) => PyLt(out.val, PyInt(0))
C10_Witness ==
    /\ Did("subtract") /\ b = a /\ a.t = "float" /\ a.k < 0
    /\ out = Return(PyFloat(0))

\* ---------------------------------------------------------------------
\* Properties of SpecSeq and SpecConc.
\* ---------------------------------------------------------------------
SameRequest(c1, c2) == c1.op = c2.op /\ c1.a = c2.a /\ c1.b = c2.b
\* The outcome of the call alone, on a new instance.
Alone(name, x, y) == Invoke(NewCalculator, name, x, y).out

\* C7: the outcome of a call is that of the same call made alone on a new
\* instance, whatever calls came before it (failed ones included), in
\* whatever order, on a new or a used instance; a call with the arguments of
\* the first call has the first call's outcome; and no call leaves anything
\* in an instance.
C7_Stateless ==
    /\ last.inst # 0 =>
          /\ last.out = Alone(last.op, last.a, last.b)
          /\ SameRequest(first, last) => last.out = first.out
    /\ \A i \in Instances : insts[i] = NewCalculator
\* A call on a used instance, after a failed first call on that instance.
C7_Witness ==
    /\ first.op = "divide" /\ first.b = PyInt(0)
    /\ first.out = Raise("ValueError", "Cannot divide by zero")
    /\ last.inst = first.inst /\ ~last.fresh
    /\ last.op = "add" /\ last.a = PyFloat(-7 * (Quantum \div 2))
    /\ last.b = PyInt(0)
    /\ last.out = Return(PyFloat(-7 * (Quantum \div 2)))

\* C8: whatever the interleaving of the callers' steps, the result a caller
\* gets is the outcome of its own call made alone: it depends on that call's
\* arguments only, and the shared instance holds nothing.
C8_Isolated ==
    /\ \A c \in Callers :
          cpc[c] = "returned"
              => res[c] = Alone(frame[c].op, frame[c].a, frame[c].b)
    /\ insts[Shared] = NewCalculator
\* Two overlapping calls have returned, one failed and one not.
C8_Witness ==
    /\ cpc[1] = "returned" /\ cpc[2] = "returned"
    /\ frame[1].overlapped /\ frame[2].overlapped
    /\ frame[1].op = "square_root" /\ res[1].exc = "ValueError"
    /\ frame[2].op = "subtract" /\ frame[2].a = PyInt(0)
    /\ frame[2].b = PyFloat(-7 * (Quantum \div 2))
    /\ res[2] = Return(PyFloat(7 * (Quantum \div 2)))

====
